---------------------------- MODULE Spec2Model ----------------------------
(***************************************************************************)
(* Dancing-links Sudoku solver and puzzle generator (src/main.rs).         *)
(*                                                                         *)
(* The SudokuWeb struct is modelled field by field; the node arena (slab)  *)
(* is a function from node index to Node record.  solve, pre_dance,        *)
(* post_dance, dance and random_puzzle are unrolled into a state machine   *)
(* whose steps are the individual cover_column / uncover_column calls and  *)
(* the control decisions between them; the recursion of dance is an        *)
(* explicit stack of frames holding dance's locals (k, c, r, j).           *)
(*                                                                         *)
(* Spec        main's calls of solve and random_puzzle on one matrix       *)
(* SpecRepeat  the deterministic solve of the empty grid, repeated         *)
(* SpecOutcome deterministic solves whose outcomes main compares           *)
(* SpecBuild   SudokuWeb::new, one inserted header or row per step         *)
(***************************************************************************)
EXTENDS Integers, Sequences, FiniteSets, TLC

VARIABLES
    belts, curtains,        \* SudokuWeb.belts, SudokuWeb.curtains
    slab,                   \* SudokuWeb.slab: node index -> Node
    solution,               \* SudokuWeb.solution
    prop_solution,          \* SudokuWeb.prop_solution
    solution_count,         \* SudokuWeb.solution_count
    uniq, possible,         \* SudokuWeb.uniq, SudokuWeb.possible (Knowing)
    pc,                     \* control point of the running call
    seek, rand,             \* arguments of the running solve
    ps,                     \* solve's local ps (clone of prop_solution)
    pre,                    \* pre_dance's locals: psi, ind_i, undo
    post,                   \* post_dance's locals: ps, psi, ind_i, ret
    frames,                 \* dance's activation records, innermost last
    rp,                     \* random_puzzle's locals i and gone; and full:
                            \*   the triples of the solution it started
                            \*   from, tried: the clues it has removed
    caller,                 \* where the running solve returns to
    slab0,                  \* the slab as it was when solve was called
    uniq0,                  \* uniq as it was when solve was called
    cover_stack,            \* the columns covered and not yet uncovered,
                            \*   in the order cover_column was called
    calls,                  \* calls main has made on this matrix (0, 1, many)
    memo                    \* seek -> the solution main noted down for it

web  == <<belts, curtains, slab, solution, prop_solution, solution_count,
          uniq, possible>>
ctl  == <<pc, seek, rand, ps, pre, post, frames, rp, caller>>
vars == <<web, ctl, slab0, uniq0, cover_stack, calls, memo>>

-----------------------------------------------------------------------------
(* Bounds of the model *)

\* longest clue list handed to solve by the caller (besides complete grids)
MaxClues == 2
\* largest seek handed to solve by the caller
MaxSeek == 2

\* (belts, curtains) shapes the matrix is constructed with
Shapes == {<<1, 1>>, <<1, 2>>}

\* longest clue list (besides complete grids) of the calls whose outcomes are
\* compared across matrices
MaxOutcomeClues == 1

\* largest belts and curtains of the matrices whose construction is followed
\* node by node
MaxBelts == 3
MaxCurtains == 3

BuildShapes == (1..MaxBelts) \X (1..MaxCurtains)

-----------------------------------------------------------------------------
(* enum Knowing *)

Yes     == "Yes"
No      == "No"
Unknown == "Unknown"
Knowing == {Yes, No, Unknown}

-----------------------------------------------------------------------------
(* struct Node and its constructors *)

new_h ==
    [li |-> 0, ri |-> 0, ui |-> 0, di |-> 0, ci |-> 0, i |-> 0,
     size |-> 0, id |-> <<0, 0, 0>>]

new_column_header(i) ==
    [li |-> i - 1, ri |-> 0, ui |-> i, di |-> i, ci |-> i, i |-> i,
     size |-> 0, id |-> <<0, 0, 0>>]

new_link(li, ri, ui, di, ci, i, id) ==
    [li |-> li, ri |-> ri, ui |-> ui, di |-> di, ci |-> ci, i |-> i,
     id |-> id, size |-> 0]

-----------------------------------------------------------------------------
(* Sizes *)

symbols(B, C) == B * C

constraints(B, C) == symbols(B, C) * symbols(B, C) * 4

possibilities(B, C) == symbols(B, C) * symbols(B, C) * symbols(B, C)

nodes(B, C) == possibilities(B, C) * 4

capacity(B, C) == 1 + constraints(B, C) + nodes(B, C)

-----------------------------------------------------------------------------
(* The arena: Slab::insert / vacant_entry hand out keys 0, 1, 2, ... *)

vacant_key(s) == Cardinality(DOMAIN s)

insert(s, node) ==
    LET key == vacant_key(s)
    IN  [k \in 0..key |-> IF k = key THEN node ELSE s[k]]

at(s, i) == s[i]

\* statement sequencing: the slab s is fully computed before e goes on from it
Then(s, e) == IF DOMAIN s = {} THEN s ELSE e

\* slab[k].f = v
SetField(s, k, f, v) == [s EXCEPT ![k][f] = v]

set_h == insert(<<>>, new_h)

\* faulty variant: belts and curtains change places
block_of_swapped(B, C, r, c) == ((r - 1) \div B) * B + ((c - 1) \div C) + 1

\* the block of cell (r, c): the local `block` of indices_from_rcn
block_of(B, C, r, c) == ((r - 1) \div C) * C + ((c - 1) \div B) + 1

\* faulty variant: the row constraint is computed from the column c
indices_from_rcn_row_by_c(B, C, r, c, n) ==
    LET nums  == symbols(B, C)
        block == block_of(B, C, r, c)
    IN  <<(r - 1) * nums + c,
          nums * nums + (c - 1) * nums + n,
          2 * nums * nums + (c - 1) * nums + n,
          3 * nums * nums + (block - 1) * nums + n>>

\* The four constraint columns of candidate (r, c, n): cell, row, col, block
indices_from_rcn(B, C, r, c, n) ==
    LET nums  == symbols(B, C)
        block == block_of(B, C, r, c)
        cell_constraint  == (r - 1) * nums + c
        row_constraint   == nums * nums + (r - 1) * nums + n
        col_constraint   == 2 * nums * nums + (c - 1) * nums + n
        block_constraint == 3 * nums * nums + (block - 1) * nums + n
    IN  <<cell_constraint, row_constraint, col_constraint, block_constraint>>

\* faulty variant: the node above is not told about the new node
set_new_links_no_up(s, new_key) ==
    LET node_is == at(s, new_key)
        s1 == SetField(s,  node_is.li, "ri", new_key)
        s2 == SetField(s1, node_is.ri, "li", new_key)
        s4 == SetField(s2, node_is.di, "ui", new_key)
    IN  IF new_key # node_is.ci
        THEN SetField(s4, node_is.ci, "size", s4[node_is.ci].size + 1)
        ELSE s4

\* Given the key of a freshly created node, make its neighbours point to it
set_new_links(s, new_key) ==
    LET node_is == at(s, new_key)
        s1 == SetField(s,  node_is.li, "ri", new_key)
        s2 == SetField(s1, node_is.ri, "li", new_key)
        s3 == SetField(s2, node_is.ui, "di", new_key)
        s4 == SetField(s3, node_is.di, "ui", new_key)
    IN  IF new_key # node_is.ci
        THEN SetField(s4, node_is.ci, "size", s4[node_is.ci].size + 1)
        ELSE s4

\* One iteration of populate_headers' innermost loop body
insert_header(s, nums, case_index, i, j) ==
    LET n   == case_index * nums * nums + (i - 1) * nums + j
        key == vacant_key(s)
    IN  set_new_links(insert(s, new_column_header(n)), key)

RECURSIVE populate_headers_from(_, _, _)
\* the three nested loops of populate_headers, resumed at its t-th iteration
populate_headers_from(s, nums, t) ==
    IF t >= 4 * nums * nums THEN s
    ELSE LET case_index == t \div (nums * nums)
             i == ((t % (nums * nums)) \div nums) + 1
             j == (t % nums) + 1
             s1 == insert_header(s, nums, case_index, i, j)
         IN  Then(s1, populate_headers_from(s1, nums, t + 1))

populate_headers(s, B, C) == populate_headers_from(s, symbols(B, C), 0)

RECURSIVE insert_row_rest(_, _, _, _, _)
\* insert_row's loop over indices.iter().skip(1), at position p
insert_row_rest(s, indices, first_key, id, p) ==
    IF p > Len(indices) THEN s
    ELSE LET i   == indices[p]
             li  == s[first_key].li
             ui  == s[i].ui
             key == vacant_key(s)
             new == new_link(li, first_key, ui, i, i, key, id)
             s1  == set_new_links(insert(s, new), key)
         IN  Then(s1, insert_row_rest(s1, indices, first_key, id, p + 1))

insert_row(s, B, C, r, c, n) ==
    LET id        == <<r, c, n>>
        indices   == indices_from_rcn(B, C, r, c, n)
        i_first   == indices[1]
        ui        == s[i_first].ui
        first_key == vacant_key(s)
        new       == new_link(first_key, first_key, ui, i_first, i_first,
                              first_key, id)
        s1        == set_new_links(insert(s, new), first_key)
    IN  Then(s1, insert_row_rest(s1, indices, first_key, id, 2))

RECURSIVE populate_rows_from(_, _, _, _)
\* the three nested loops of populate_rows, resumed at its t-th iteration
populate_rows_from(s, B, C, t) ==
    LET nums == symbols(B, C)
    IN  IF t >= nums * nums * nums THEN s
        ELSE LET r == (t \div (nums * nums)) + 1
                 c == ((t % (nums * nums)) \div nums) + 1
                 n == (t % nums) + 1
                 s1 == insert_row(s, B, C, r, c, n)
             IN  Then(s1, populate_rows_from(s1, B, C, t + 1))

populate_rows(s, B, C) == populate_rows_from(s, B, C, 0)

arrange(s, B, C) == populate_rows(populate_headers(s, B, C), B, C)

\* SudokuWeb::new: the slab after construction
new(B, C) == arrange(set_h, B, C)

-----------------------------------------------------------------------------
(* cover_column / uncover_column *)

RECURSIVE cover_row_nodes_keep_size(_, _, _)
\* faulty variant: the nodes are unlinked but the header's size is not lowered
cover_row_nodes_keep_size(s, i, j) ==
    IF j.i = i.i THEN s
    ELSE LET s1 == SetField(s,  j.di, "ui", j.ui)
             s2 == SetField(s1, j.ui, "di", j.di)
         IN  cover_row_nodes_keep_size(s2, i, at(s2, j.ri))

RECURSIVE cover_row_nodes(_, _, _)
\* cover_column's inner loop: unlink every other node j of row i from its column
cover_row_nodes(s, i, j) ==
    IF j.i = i.i THEN s
    ELSE LET s1 == SetField(s,  j.di, "ui", j.ui)
             s2 == SetField(s1, j.ui, "di", j.di)
             s3 == SetField(s2, j.ci, "size", s2[j.ci].size - 1)
         IN  cover_row_nodes(s3, i, at(s3, j.ri))

RECURSIVE cover_rows(_, _, _)
\* cover_column's outer loop: every row i of column c, top to bottom
cover_rows(s, c, i) ==
    IF i.i = c.i THEN s
    ELSE LET s1 == cover_row_nodes(s, i, at(s, i.ri))
         IN  cover_rows(s1, c, at(s1, i.di))

\* faulty variant: the header is unlinked on its right side only
cover_column_half(s, c) ==
    LET s1 == SetField(s,  c.ri, "li", c.li)
    IN  cover_rows(s1, c, at(s1, c.di))

cover_column(s, c) ==
    LET s1 == SetField(s,  c.ri, "li", c.li)
        s2 == SetField(s1, c.li, "ri", c.ri)
    IN  cover_rows(s2, c, at(s2, c.di))

RECURSIVE uncover_row_nodes(_, _, _)
\* uncover_column's inner loop: relink every other node j of row i, right to left
uncover_row_nodes(s, i, j) ==
    IF j.i = i.i THEN s
    ELSE LET s1 == SetField(s,  j.di, "ui", j.i)
             s2 == SetField(s1, j.ui, "di", j.i)
             s3 == SetField(s2, j.ci, "size", s2[j.ci].size + 1)
         IN  uncover_row_nodes(s3, i, at(s3, j.li))

RECURSIVE uncover_rows(_, _, _)
\* uncover_column's outer loop: every row i of column c, bottom to top
uncover_rows(s, c, i) ==
    IF i.i = c.i THEN s
    ELSE LET s1 == uncover_row_nodes(s, i, at(s, i.li))
         IN  uncover_rows(s1, c, at(s1, i.ui))

\* faulty variant: the header is relinked on its right side only
uncover_column_right_only(s, c) ==
    LET s1 == uncover_rows(s, c, at(s, c.ui))
    IN  SetField(s1, c.ri, "li", c.i)

uncover_column(s, c) ==
    LET s1 == uncover_rows(s, c, at(s, c.ui))
        s2 == SetField(s1, c.ri, "li", c.i)
    IN  SetField(s2, c.li, "ri", c.i)

RECURSIVE cover_clue_three(_, _, _)
\* faulty variant: the clue's block column is left uncovered
cover_clue_three(s, indices, ind_i) ==
    IF ind_i > 3 THEN s
    ELSE LET s1 == cover_column(s, at(s, indices[ind_i]))
         IN  Then(s1, cover_clue_three(s1, indices, ind_i + 1))

RECURSIVE cover_clue_from(_, _, _)
\* pre_dance's loop over the indices of one clue, when every column is live
cover_clue_from(s, indices, ind_i) ==
    IF ind_i > Len(indices) THEN s
    ELSE LET s1 == cover_column(s, at(s, indices[ind_i]))
         IN  Then(s1, cover_clue_from(s1, indices, ind_i + 1))

RECURSIVE uncover_clue_forward(_, _, _)
\* faulty variant: the columns are uncovered in the order they were covered
uncover_clue_forward(s, indices, ind_i) ==
    IF ind_i < 1 THEN s
    ELSE LET s1 == uncover_column(s, at(s, indices[Len(indices) + 1 - ind_i]))
         IN  Then(s1, uncover_clue_forward(s1, indices, ind_i - 1))

RECURSIVE uncover_clue_from(_, _, _)
\* post_dance's loop over indices.iter().rev() of one clue
uncover_clue_from(s, indices, ind_i) ==
    IF ind_i < 1 THEN s
    ELSE LET s1 == uncover_column(s, at(s, indices[ind_i]))
         IN  Then(s1, uncover_clue_from(s1, indices, ind_i - 1))

-----------------------------------------------------------------------------
(* The live header list and the column choosers *)

RECURSIVE headers_from(_, _)
\* the indices met walking right from node j until h (node 0) is reached
headers_from(s, j) ==
    IF j.i = at(s, 0).i THEN <<>>
    ELSE <<j.i>> \o headers_from(s, at(s, j.ri))

\* pre_dance's scan (lines 298-308): is column i connected to the h node?
is_connected(s, i) ==
    LET hs == headers_from(s, at(s, at(s, 0).ri))
    IN  \E p \in 1..Len(hs) : hs[p] = i

\* stands for usize::max_value(): larger than any size the scan can meet
usize_max == 2147483647

RECURSIVE choose_well_scan_last(_, _, _, _)
\* faulty variant: a header tied with the smallest so far replaces it
choose_well_scan_last(s, j, smin, c) ==
    IF j.i = at(s, 0).i THEN c
    ELSE IF j.size <= smin
         THEN choose_well_scan_last(s, at(s, j.ri), j.size, j)
         ELSE choose_well_scan_last(s, at(s, j.ri), smin, c)

RECURSIVE choose_well_scan(_, _, _, _)
choose_well_scan(s, j, smin, c) ==
    IF j.i = at(s, 0).i THEN c
    ELSE IF j.size < smin
         THEN choose_well_scan(s, at(s, j.ri), j.size, j)
         ELSE choose_well_scan(s, at(s, j.ri), smin, c)

choose_column_well(s) ==
    LET j == at(s, at(s, 0).ri)
    IN  choose_well_scan(s, j, usize_max, j)

RECURSIVE choose_random_scan(_, _, _, _)
\* the scan of choose_column_randomly: the vector i of tied header indices
choose_random_scan(s, j, smin, i) ==
    IF j.i = at(s, 0).i THEN i
    ELSE IF j.size = smin
         THEN choose_random_scan(s, at(s, j.ri), smin, Append(i, j.i))
         ELSE IF j.size < smin
              THEN choose_random_scan(s, at(s, j.ri), j.size, <<j.i>>)
              ELSE choose_random_scan(s, at(s, j.ri), smin, i)

\* every node gen_range(0, i.len()) can make choose_column_randomly return
choose_column_randomly(s) ==
    LET i == choose_random_scan(s, at(s, at(s, 0).ri), usize_max, <<>>)
    IN  {at(s, i[index]) : index \in 1..Len(i)}

choose_column(s, rnd) ==
    IF rnd THEN choose_column_randomly(s) ELSE {choose_column_well(s)}

-----------------------------------------------------------------------------
(* What the caller may hand to solve *)

Syms(B, C) == 1..symbols(B, C)

\* every in-range triple [r, c, n]
Candidates(B, C) ==
    {<<r, c, n>> : r \in Syms(B, C), c \in Syms(B, C), n \in Syms(B, C)}

\* a grid g (cell -> symbol) obeys the Sudoku rules of shape (B, C)
IsValidGrid(B, C, g) ==
    \A x \in Syms(B, C) \X Syms(B, C), y \in Syms(B, C) \X Syms(B, C) :
        (x # y /\ g[x] = g[y]) =>
            /\ x[1] # y[1]
            /\ x[2] # y[2]
            /\ block_of(B, C, x[1], x[2]) # block_of(B, C, y[1], y[2])

ValidGrids(B, C) ==
    {g \in [Syms(B, C) \X Syms(B, C) -> Syms(B, C)] : IsValidGrid(B, C, g)}

\* a grid written as a clue list, cell by cell in row-major order
GridAsClues(B, C, g) ==
    LET nums == symbols(B, C)
    IN  [p \in 1..(nums * nums) |->
            LET r == ((p - 1) \div nums) + 1
                c == ((p - 1) % nums) + 1
            IN  <<r, c, g[<<r, c>>]>>]

ShortClueLists(B, C) ==
    UNION {[1..m -> Candidates(B, C)] : m \in 0..MaxClues}

FullClueLists(B, C) == {GridAsClues(B, C, g) : g \in ValidGrids(B, C)}

ClueLists(B, C) == ShortClueLists(B, C) \cup FullClueLists(B, C)

\* The calls main makes: any clue list with any seek under the deterministic
\* policy, and any non-empty clue list under the randomized policy (the
\* randomized search of the empty grid is the one random_puzzle starts with).
SolveCalls(B, C) ==
    {<<clues, sk, rnd>> : clues \in ClueLists(B, C), sk \in 0..MaxSeek,
                          rnd \in BOOLEAN} \
    {<<<<>>, sk, TRUE>> : sk \in 0..MaxSeek}

\* every order rand::thread_rng().shuffle can leave the vector v in
Shuffles(v) ==
    {[p \in 1..Len(v) |-> v[f[p]]] :
        f \in {g \in [1..Len(v) -> 1..Len(v)] :
                 \A a, b \in 1..Len(v) : a # b => g[a] # g[b]}}

-----------------------------------------------------------------------------
(* The state after SudokuWeb::new(belts, curtains) *)

NoPre  == [psi |-> 1, ind_i |-> 1, undo |-> 0]
NoPost == [ps |-> <<>>, psi |-> 0, ind_i |-> 4, ret |-> "solve"]
NoRp   == [i |-> -1, gone |-> <<0, 0, 0>>, full |-> {}, tried |-> <<>>]

Init ==
    /\ \E shape \in Shapes :
          /\ belts = shape[1]
          /\ curtains = shape[2]
          /\ slab = new(shape[1], shape[2])
    /\ solution = <<>>
    /\ prop_solution = <<>>
    /\ solution_count = 0
    /\ uniq = Unknown
    /\ possible = Unknown
    /\ pc = "idle"
    /\ seek = 0
    /\ rand = FALSE
    /\ ps = <<>>
    /\ pre = NoPre
    /\ post = NoPost
    /\ frames = <<>>
    /\ rp = NoRp
    /\ caller = "main"
    /\ slab0 = slab
    /\ uniq0 = uniq
    /\ cover_stack = <<>>
    /\ calls = 0
    /\ memo = <<>>

\* main is between two calls on the matrix
AtMain == pc \in {"idle", "solved", "generated", "rechecked"}

\* the columns of clue id
Indices(id) == indices_from_rcn(belts, curtains, id[1], id[2], id[3])

-----------------------------------------------------------------------------
(* solve *)

\* lines 281-285: entry of solve(sk, _, rnd) with prop_solution already set to p
SolveEntry(p, sk, rnd, from) ==
    /\ solution' = <<>>
    /\ solution_count' = 0
    /\ ps' = p
    /\ seek' = sk
    /\ rand' = rnd
    /\ pre' = NoPre
    /\ caller' = from
    /\ slab0' = slab
    /\ uniq0' = uniq
    /\ pc' = "pre_dance"

\* solve returns to its caller
SolveReturn ==
    /\ pc' = CASE caller = "main"     -> "solved"
               [] caller = "rp_first" -> "rp_first"
               [] caller = "rp_loop"  -> "rp_solved"
               [] caller = "recheck"  -> "rechecked"
    /\ post' = NoPost

\* main has read the outcome of its last call and goes on.  What that call
\* left in prop_solution, solution and solution_count is overwritten by the
\* next call before it is read (lines 608, 550, 281-282), and solve's
\* arguments and locals are gone: the model drops them here.
MainNext ==
    /\ pc \in {"solved", "generated", "rechecked"}
    /\ pc' = "idle"
    /\ prop_solution' = <<>>
    /\ solution' = <<>>
    /\ solution_count' = 0
    /\ seek' = 0
    /\ rand' = FALSE
    /\ ps' = <<>>
    /\ pre' = NoPre
    /\ rp' = NoRp
    /\ caller' = "main"
    /\ uniq0' = uniq
    /\ UNCHANGED <<belts, curtains, slab, uniq, possible, post, frames, slab0,
                   calls, memo,
                   cover_stack>>

\* main: sw.prop_solution = clues; sw.solve(sk, false, rnd)
MainSolve ==
    /\ pc = "idle"
    /\ \E call \in SolveCalls(belts, curtains) :
          /\ prop_solution' = call[1]
          /\ SolveEntry(call[1], call[2], call[3], "main")
    /\ calls' = IF calls < 2 THEN calls + 1 ELSE calls
    /\ UNCHANGED <<belts, curtains, slab, uniq, possible, post, frames, rp,
                   memo,
                   cover_stack>>

-----------------------------------------------------------------------------
(* pre_dance *)

\* cover_column(c) was called: c is the most recently covered column
note_cover(v, c) == Append(v, c)

\* uncover_column(c) was called: c leaves the covered columns if it is the
\* most recently covered one; an uncover out of turn is kept as -c
note_uncover(v, c) ==
    IF v # <<>> /\ v[Len(v)] = c
    THEN SubSeq(v, 1, Len(v) - 1)
    ELSE Append(v, 0 - c)

PreIndex == Indices(ps[pre.psi])[pre.ind_i]

\* lines 302-306: the column of the clue is in the header list: cover it
PreDanceCover ==
    /\ pc = "pre_dance"
    /\ pre.psi <= Len(ps)
    /\ is_connected(slab, PreIndex)
    /\ slab' = cover_column(slab, at(slab, PreIndex))
    /\ pre' = IF pre.ind_i < 4
              THEN [pre EXCEPT !.ind_i = pre.ind_i + 1]
              ELSE [pre EXCEPT !.psi = pre.psi + 1, !.ind_i = 1]
    /\ UNCHANGED <<belts, curtains, solution, prop_solution, solution_count,
                   uniq, possible, pc, seek, rand, ps, post, frames, rp,
                   caller, slab0, uniq0, calls, memo>>
    /\ cover_stack' = note_cover(cover_stack, PreIndex)

\* faulty variant: the slice taken is indices[..=ind_i]
rollback_from_inclusive(ind_i) == ind_i

\* line 309: the position of the last element of indices[..ind_i], where
\* ind_i counts from 1 here and from 0 in the source
rollback_from(ind_i) == ind_i - 1

\* the scan reached h without meeting the column: start the roll back (309)
PreDanceMissing ==
    /\ pc = "pre_dance"
    /\ pre.psi <= Len(ps)
    /\ ~is_connected(slab, PreIndex)
    /\ pre' = [pre EXCEPT !.undo = rollback_from(pre.ind_i)]
    /\ pc' = "pre_undo"
    /\ UNCHANGED <<web, seek, rand, ps, post, frames, rp, caller, slab0, uniq0, calls, memo,
                   cover_stack>>

\* lines 309-312: uncover this clue's already covered columns, last first
PreDanceUndo ==
    /\ pc = "pre_undo"
    /\ pre.undo > 0
    /\ slab' = uncover_column(slab, at(slab, Indices(ps[pre.psi])[pre.undo]))
    /\ pre' = [pre EXCEPT !.undo = pre.undo - 1]
    /\ UNCHANGED <<belts, curtains, solution, prop_solution, solution_count,
                   uniq, possible, pc, seek, rand, ps, post, frames, rp,
                   caller, slab0, uniq0, calls, memo>>
    /\ cover_stack' = note_uncover(cover_stack, Indices(ps[pre.psi])[pre.undo])

\* line 313: self.post_dance(&ps[..psi].to_vec())
PreDanceRollback ==
    /\ pc = "pre_undo"
    /\ pre.undo = 0
    /\ post' = [ps |-> SubSeq(ps, 1, pre.psi - 1), psi |-> pre.psi - 1,
                ind_i |-> 4, ret |-> "pre_dance"]
    /\ pc' = "post_dance"
    /\ UNCHANGED <<web, seek, rand, ps, pre, frames, rp, caller, slab0, uniq0, calls, memo,
                   cover_stack>>

\* line 317 and 285-288: pre_dance returns Unknown, solve calls dance(0, ..)
PreDanceOk ==
    /\ pc = "pre_dance"
    /\ pre.psi > Len(ps)
    /\ possible' = Unknown
    /\ frames' = <<[k |-> 0, c |-> new_h, r |-> new_h, j |-> new_h]>>
    /\ pc' = "dance"
    /\ UNCHANGED <<belts, curtains, slab, solution, prop_solution,
                   solution_count, uniq, seek, rand, ps, pre, post, rp,
                   caller, slab0, uniq0, calls, memo,
                   cover_stack>>

-----------------------------------------------------------------------------
(* post_dance *)

\* faulty variant: the walk over indices.iter().rev() stops one index early
post_dance_skip_first(p) ==
    IF p.ind_i > 2
    THEN [p EXCEPT !.ind_i = p.ind_i - 1]
    ELSE [p EXCEPT !.psi = p.psi - 1, !.ind_i = 4]

\* lines 321 and 324: the position after (psi, ind_i) in ps.iter().rev() and
\* indices.iter().rev()
post_dance_next(p) ==
    IF p.ind_i > 1
    THEN [p EXCEPT !.ind_i = p.ind_i - 1]
    ELSE [p EXCEPT !.psi = p.psi - 1, !.ind_i = 4]

\* lines 321-327: one uncover_column of the reversed walk
PostDanceUncover ==
    /\ pc = "post_dance"
    /\ post.psi >= 1
    /\ LET c == at(slab, Indices(post.ps[post.psi])[post.ind_i])
       IN  slab' = uncover_column(slab, c)
    /\ post' = post_dance_next(post)
    /\ UNCHANGED <<belts, curtains, solution, prop_solution, solution_count,
                   uniq, possible, pc, seek, rand, ps, pre, frames, rp,
                   caller, slab0, uniq0, calls, memo>>
    /\ cover_stack' = note_uncover(cover_stack, Indices(post.ps[post.psi])[post.ind_i])

\* line 314 and 285-287: pre_dance returns No, solve skips the search
PreDanceFail ==
    /\ pc = "post_dance"
    /\ post.psi = 0
    /\ post.ret = "pre_dance"
    /\ possible' = No
    /\ SolveReturn
    /\ UNCHANGED <<belts, curtains, slab, solution, prop_solution,
                   solution_count, uniq, seek, rand, ps, pre, frames, rp,
                   caller, slab0, uniq0, calls, memo,
                   cover_stack>>

\* line 289-291: post_dance(&ps) is done, solve returns
SolveDone ==
    /\ pc = "post_dance"
    /\ post.psi = 0
    /\ post.ret = "solve"
    /\ SolveReturn
    /\ UNCHANGED <<web, seek, rand, ps, pre, frames, rp, caller, slab0, uniq0, calls, memo,
                   cover_stack>>

-----------------------------------------------------------------------------
(* dance *)

Top == frames[Len(frames)]

SetTop(f) == [frames EXCEPT ![Len(frames)] = f]

\* faulty variant: nothing is taken off
pop_nothing(v) == v

\* Vec::pop
pop(v) == IF Len(v) = 0 THEN v ELSE SubSeq(v, 1, Len(v) - 1)

\* dance returns: to the dance that called it (line 365) or to solve (line 289)
DanceReturn ==
    IF Len(frames) > 1
    THEN /\ frames' = SubSeq(frames, 1, Len(frames) - 1)
         /\ pc' = "recursed"
         /\ post' = post
    ELSE /\ frames' = <<>>
         /\ pc' = "post_dance"
         /\ post' = [ps |-> ps, psi |-> Len(ps), ind_i |-> 4, ret |-> "solve"]

\* faulty variant: the loop goes over every row, whatever the count
loop_guard_all_rows(r, c, count, sk) == r.i # c.i

\* faulty variant: the loop goes on while solution_count <= seek
loop_guard_le(r, c, count, sk) == r.i # c.i /\ count <= sk

\* line 352: the guard of dance's loop over the rows of column c
loop_guard(r, c, count, sk) == r.i # c.i /\ count < sk

\* faulty variant: a second solution leaves the flag as it was
mark_not_unique_never(count, u) == u

\* lines 341-343: uniq after solution number count has been found
mark_not_unique(count, u) == IF count > 1 THEN No ELSE u

\* lines 333-345: the header list is empty: a solution
DanceFound ==
    /\ pc = "dance"
    /\ at(slab, 0).ri = 0
    /\ possible' = Yes
    /\ solution_count' = solution_count + 1
    /\ solution' = prop_solution
    /\ uniq' = mark_not_unique(solution_count + 1, uniq)
    /\ DanceReturn
    /\ UNCHANGED <<belts, curtains, slab, prop_solution, seek, rand, ps, pre,
                   rp, caller, slab0, uniq0, calls, memo,
                   cover_stack>>

\* lines 347-351: choose a column, cover it, take its first row
DanceChoose ==
    /\ pc = "dance"
    /\ at(slab, 0).ri # 0
    /\ \E c \in choose_column(slab, rand) :
          /\ slab' = cover_column(slab, c)
          /\ frames' = SetTop([Top EXCEPT !.c = c, !.r = at(slab', c.di)])
          /\ cover_stack' = note_cover(cover_stack, c.i)
    /\ pc' = "rows"
    /\ UNCHANGED <<belts, curtains, solution, prop_solution, solution_count,
                   uniq, possible, seek, rand, ps, pre, post, rp, caller,
                   slab0, uniq0, calls, memo>>

\* lines 352-355: the loop guard holds: push the row, start covering its columns
DanceTry ==
    /\ pc = "rows"
    /\ loop_guard(Top.r, Top.c, solution_count, seek)
    /\ prop_solution' = Append(prop_solution, Top.r.id)
    /\ frames' = SetTop([Top EXCEPT !.j = at(slab, Top.r.ri)])
    /\ pc' = "cover_row"
    /\ UNCHANGED <<belts, curtains, slab, solution, solution_count, uniq,
                   possible, seek, rand, ps, pre, post, rp, caller, slab0, uniq0,
                   calls, memo,
                   cover_stack>>

\* lines 356-361: cover the column of the next node of the row
DanceCoverRow ==
    /\ pc = "cover_row"
    /\ Top.j.i # Top.r.i
    /\ LET cj == at(slab, Top.j.ci)
       IN  slab' = cover_column(slab, cj)
    /\ frames' = SetTop([Top EXCEPT !.j = at(slab', Top.j.ri)])
    /\ UNCHANGED <<belts, curtains, solution, prop_solution, solution_count,
                   uniq, possible, pc, seek, rand, ps, pre, post, rp, caller,
                   slab0, uniq0, calls, memo>>
    /\ cover_stack' = note_cover(cover_stack, Top.j.ci)

\* line 363: self.dance(k + 1, ..)
DanceRecurse ==
    /\ pc = "cover_row"
    /\ Top.j.i = Top.r.i
    /\ frames' = Append(frames, [k |-> Top.k + 1, c |-> new_h, r |-> new_h,
                                 j |-> new_h])
    /\ pc' = "dance"
    /\ UNCHANGED <<web, seek, rand, ps, pre, post, rp, caller, slab0, uniq0, calls, memo,
                   cover_stack>>

\* faulty variant: the row is walked rightwards, as when it was covered
uncover_row_next_right(s, n) == at(s, n.ri)

\* lines 367 and 372: the walk of the row when uncovering goes leftwards
uncover_row_next(s, n) == at(s, n.li)

\* lines 365-367: back from the recursion: pop the row, start uncovering
DanceBacktrack ==
    /\ pc = "recursed"
    /\ prop_solution' = pop(prop_solution)
    /\ frames' = SetTop([Top EXCEPT !.j = uncover_row_next(slab, Top.r)])
    /\ pc' = "uncover_row"
    /\ UNCHANGED <<belts, curtains, slab, solution, solution_count, uniq,
                   possible, seek, rand, ps, pre, post, rp, caller, slab0, uniq0,
                   calls, memo,
                   cover_stack>>

\* lines 368-373: uncover the column of the next node of the row, leftwards
DanceUncoverRow ==
    /\ pc = "uncover_row"
    /\ Top.j.i # Top.r.i
    /\ LET cj == at(slab, Top.j.ci)
       IN  slab' = uncover_column(slab, cj)
    /\ frames' = SetTop([Top EXCEPT !.j = uncover_row_next(slab', Top.j)])
    /\ UNCHANGED <<belts, curtains, solution, prop_solution, solution_count,
                   uniq, possible, pc, seek, rand, ps, pre, post, rp, caller,
                   slab0, uniq0, calls, memo>>
    /\ cover_stack' = note_uncover(cover_stack, Top.j.ci)

\* line 375: r = self.at(r.di)
DanceNextRow ==
    /\ pc = "uncover_row"
    /\ Top.j.i = Top.r.i
    /\ frames' = SetTop([Top EXCEPT !.r = at(slab, Top.r.di)])
    /\ pc' = "rows"
    /\ UNCHANGED <<web, seek, rand, ps, pre, post, rp, caller, slab0, uniq0, calls, memo,
                   cover_stack>>

\* lines 378-387: the loop is over: uncover c, set the flags at depth 0, return
DanceLeave ==
    /\ pc = "rows"
    /\ ~loop_guard(Top.r, Top.c, solution_count, seek)
    /\ slab' = uncover_column(slab, Top.c)
    /\ uniq' = IF Top.k = 0 /\ solution_count = 1 /\ seek > 1
               THEN Yes ELSE uniq
    /\ possible' = IF /\ Top.k = 0
                      /\ ~(solution_count = 1 /\ seek > 1)
                      /\ solution_count = 0
                   THEN No ELSE possible
    /\ DanceReturn
    /\ UNCHANGED <<belts, curtains, solution, prop_solution, solution_count,
                   seek, rand, ps, pre, rp, caller, slab0, uniq0, calls, memo>>
    /\ cover_stack' = note_uncover(cover_stack, Top.c.i)

-----------------------------------------------------------------------------
(* random_puzzle *)

\* Vec::remove(i), i counted from 0
remove(v, i) == SubSeq(v, 1, i) \o SubSeq(v, i + 2, Len(v))

\* lines 550-551: prop_solution = vec![]; solve(1, false, true)
RandomPuzzle ==
    /\ pc = "idle"
    /\ prop_solution' = <<>>
    /\ SolveEntry(<<>>, 1, TRUE, "rp_first")
    /\ rp' = NoRp
    /\ calls' = IF calls < 2 THEN calls + 1 ELSE calls
    /\ UNCHANGED <<belts, curtains, slab, uniq, possible, post, frames, memo,
                   cover_stack>>

\* lines 552-555: take the solution as the clues, shuffle, start the loop
RandomPuzzleShuffle ==
    /\ pc = "rp_first"
    /\ \E v \in Shuffles(solution) : prop_solution' = v
    /\ rp' = [rp EXCEPT !.i = Len(solution) - 1, !.full = {solution[p] : p \in 1..Len(solution)}]
    /\ pc' = "rp_loop"
    /\ UNCHANGED <<belts, curtains, slab, solution, solution_count, uniq,
                   possible, seek, rand, ps, pre, post, frames, caller, slab0, uniq0,
                   calls, memo,
                   cover_stack>>

\* lines 555-557: remove clue i and solve(2, false, false) without it
RandomPuzzleRemove ==
    /\ pc = "rp_loop"
    /\ rp.i >= 0
    /\ rp.i < Len(prop_solution)
    /\ rp' = [rp EXCEPT !.gone = prop_solution[rp.i + 1],
                        !.tried = Append(rp.tried, prop_solution[rp.i + 1])]
    /\ prop_solution' = remove(prop_solution, rp.i)
    /\ SolveEntry(prop_solution', 2, FALSE, "rp_loop")
    /\ UNCHANGED <<belts, curtains, slab, uniq, possible, post, frames, calls, memo,
                   cover_stack>>

\* faulty variant: the removed clue is never put back
keep_or_drop_never(u, v, gone) == v

\* faulty variant: the removed clue is put back unless uniqueness is Unknown
keep_or_drop_known(u, v, gone) == IF u # Unknown THEN Append(v, gone) ELSE v

\* lines 558-560: the clue vector v after the test of uniq
keep_or_drop(u, v, gone) == IF u = No THEN Append(v, gone) ELSE v

\* lines 558-561: put the clue back when the puzzle lost its uniqueness
RandomPuzzleDecide ==
    /\ pc = "rp_solved"
    /\ prop_solution' = keep_or_drop(uniq, prop_solution, rp.gone)
    /\ rp' = [rp EXCEPT !.i = rp.i - 1]
    /\ pc' = "rp_loop"
    /\ UNCHANGED <<belts, curtains, slab, solution, solution_count, uniq,
                   possible, seek, rand, ps, pre, post, frames, caller, slab0, uniq0,
                   calls, memo,
                   cover_stack>>

\* line 562: the loop is over
RandomPuzzleReturn ==
    /\ pc = "rp_loop"
    /\ rp.i < 0
    /\ pc' = "generated"
    /\ UNCHANGED <<web, seek, rand, ps, pre, post, frames, rp, caller, slab0, uniq0,
                   calls, memo,
                   cover_stack>>

\* main, after random_puzzle: is clue p of the puzzle needed?  It takes the clue
\* out and calls solve(2, false, false)
MainRecheck ==
    /\ pc = "generated"
    /\ \E p \in 1..Len(prop_solution) :
          /\ prop_solution' = remove(prop_solution, p - 1)
          /\ SolveEntry(prop_solution', 2, FALSE, "recheck")
    /\ calls' = IF calls < 2 THEN calls + 1 ELSE calls
    /\ UNCHANGED <<belts, curtains, slab, uniq, possible, post, frames, rp,
                   memo,
                   cover_stack>>

-----------------------------------------------------------------------------

Next ==
    \/ MainSolve
    \/ MainNext
    \/ PreDanceCover
    \/ PreDanceMissing
    \/ PreDanceUndo
    \/ PreDanceRollback
    \/ PreDanceOk
    \/ PostDanceUncover
    \/ PreDanceFail
    \/ SolveDone
    \/ DanceFound
    \/ DanceChoose
    \/ DanceTry
    \/ DanceCoverRow
    \/ DanceRecurse
    \/ DanceBacktrack
    \/ DanceUncoverRow
    \/ DanceNextRow
    \/ DanceLeave
    \/ RandomPuzzle
    \/ RandomPuzzleShuffle
    \/ RandomPuzzleRemove
    \/ RandomPuzzleDecide
    \/ RandomPuzzleReturn
    \/ MainRecheck

Spec == Init /\ [][Next]_vars

-----------------------------------------------------------------------------
(* main repeating one solve: the deterministic solve of the empty grid, made
   again on the same matrix or on a newly constructed one of the same shape *)

\* main: sw.prop_solution = vec![]; sw.solve(sk, false, false)
MainSolveEmpty ==
    /\ pc = "idle"
    /\ \E sk \in 0..MaxSeek :
          /\ prop_solution' = <<>>
          /\ SolveEntry(<<>>, sk, FALSE, "main")
    /\ calls' = IF calls < 2 THEN calls + 1 ELSE calls
    /\ UNCHANGED <<belts, curtains, slab, uniq, possible, post, frames, rp,
                   memo,
                   cover_stack>>

\* main notes down the solution found for this seek, unless it has one, and
\* goes on
MainNextRecord ==
    /\ pc = "solved"
    /\ memo' = IF seek \in DOMAIN memo THEN memo
               ELSE [sk \in DOMAIN memo \cup {seek} |->
                        IF sk = seek THEN solution ELSE memo[sk]]
    /\ pc' = "idle"
    /\ prop_solution' = <<>>
    /\ solution' = <<>>
    /\ solution_count' = 0
    /\ seek' = 0
    /\ rand' = FALSE
    /\ ps' = <<>>
    /\ pre' = NoPre
    /\ rp' = NoRp
    /\ caller' = "main"
    /\ uniq0' = uniq
    /\ UNCHANGED <<belts, curtains, slab, uniq, possible, post, frames, slab0,
                   calls,
                   cover_stack>>

\* main drops the matrix and constructs another of the same shape
Rebuild ==
    /\ pc = "idle"
    /\ calls > 0
    /\ slab' = new(belts, curtains)
    /\ slab0' = slab'
    /\ uniq0' = Unknown
    /\ uniq' = Unknown
    /\ possible' = Unknown
    /\ calls' = 0
    /\ UNCHANGED <<belts, curtains, solution, prop_solution, solution_count,
                   ctl, memo,
                   cover_stack>>

NextRepeat ==
    \/ MainSolveEmpty
    \/ MainNextRecord
    \/ Rebuild
    \/ PreDanceOk
    \/ SolveDone
    \/ DanceFound
    \/ DanceChoose
    \/ DanceTry
    \/ DanceCoverRow
    \/ DanceRecurse
    \/ DanceBacktrack
    \/ DanceUncoverRow
    \/ DanceNextRow
    \/ DanceLeave

SpecRepeat == Init /\ [][NextRepeat]_vars

-----------------------------------------------------------------------------
(* main comparing outcomes: deterministic solves on one matrix after another;
   main notes down the outcome of one call and looks at every later call with
   the same clue list and seek *)

\* the lists of two clues that share a constraint column, the first clue
\* being (1, 1, 1)
ClashingPairs(B, C) ==
    {pair \in {<<1, 1, 1>>} \X Candidates(B, C) :
        LET x == pair[1]
            y == pair[2]
        IN  \E p, q \in 1..4 :
                indices_from_rcn(B, C, x[1], x[2], x[3])[p]
                  = indices_from_rcn(B, C, y[1], y[2], y[3])[q]}

\* the clue lists and seeks of the calls that are compared: short lists,
\* contradictory pairs and complete grids
OutcomeCalls(B, C) ==
    {<<clues, sk>> :
        clues \in UNION {[1..m -> Candidates(B, C)] : m \in 0..MaxOutcomeClues}
                     \cup ClashingPairs(B, C)
                     \cup FullClueLists(B, C),
        sk \in 0..MaxSeek}

\* the four values solve reports
Outcome == <<solution, solution_count, uniq, possible>>

\* main: sw.prop_solution = clues; sw.solve(sk, false, false)
MainSolveDet ==
    /\ pc = "idle"
    /\ \E call \in OutcomeCalls(belts, curtains) :
          /\ prop_solution' = call[1]
          /\ SolveEntry(call[1], call[2], FALSE, "main")
    /\ calls' = IF calls < 2 THEN calls + 1 ELSE calls
    /\ UNCHANGED <<belts, curtains, slab, uniq, possible, post, frames, rp,
                   memo,
                   cover_stack>>

\* main notes down the outcome of this call under (clue list, seek), unless it
\* has noted one down already, and goes on
MainNextNote ==
    /\ pc = "solved"
    /\ memo' = IF DOMAIN memo # {} THEN memo
               ELSE [key \in {<<ps, seek>>} |-> Outcome]
    /\ pc' = "idle"
    /\ prop_solution' = <<>>
    /\ solution' = <<>>
    /\ solution_count' = 0
    /\ seek' = 0
    /\ rand' = FALSE
    /\ ps' = <<>>
    /\ pre' = NoPre
    /\ rp' = NoRp
    /\ caller' = "main"
    /\ uniq0' = uniq
    /\ UNCHANGED <<belts, curtains, slab, uniq, possible, post, frames, slab0,
                   calls,
                   cover_stack>>

NextOutcome ==
    \/ MainSolveDet
    \/ MainNextNote
    \/ Rebuild
    \/ PreDanceCover
    \/ PreDanceMissing
    \/ PreDanceUndo
    \/ PreDanceRollback
    \/ PreDanceOk
    \/ PostDanceUncover
    \/ PreDanceFail
    \/ SolveDone
    \/ DanceFound
    \/ DanceChoose
    \/ DanceTry
    \/ DanceCoverRow
    \/ DanceRecurse
    \/ DanceBacktrack
    \/ DanceUncoverRow
    \/ DanceNextRow
    \/ DanceLeave

SpecOutcome == Init /\ [][NextOutcome]_vars

-----------------------------------------------------------------------------
(* SudokuWeb::new followed insertion by insertion: one step per iteration of
   the loops of populate_headers and populate_rows.  The loop counters are
   read off the slab: it hands out the keys 0, 1, 2, ... in order. *)

\* lines 106-120: the struct is made and set_h has inserted the h node
InitBuild ==
    /\ \E shape \in BuildShapes :
          /\ belts = shape[1]
          /\ curtains = shape[2]
    /\ slab = set_h
    /\ solution = <<>>
    /\ prop_solution = <<>>
    /\ solution_count = 0
    /\ uniq = Unknown
    /\ possible = Unknown
    /\ pc = "populate_headers"
    /\ seek = 0
    /\ rand = FALSE
    /\ ps = <<>>
    /\ pre = NoPre
    /\ post = NoPost
    /\ frames = <<>>
    /\ rp = NoRp
    /\ caller = "main"
    /\ slab0 = slab
    /\ uniq0 = uniq
    /\ cover_stack = <<>>
    /\ calls = 0
    /\ memo = <<>>

\* lines 165-179: one iteration of populate_headers' innermost loop
PopulateHeadersStep ==
    /\ pc = "populate_headers"
    /\ LET nums == symbols(belts, curtains)
           t    == vacant_key(slab) - 1
       IN  /\ t < 4 * nums * nums
           /\ slab' = insert_header(slab, nums, t \div (nums * nums),
                                    ((t % (nums * nums)) \div nums) + 1,
                                    (t % nums) + 1)
    /\ slab0' = slab'
    /\ UNCHANGED <<belts, curtains, solution, prop_solution, solution_count,
                   uniq, possible, ctl, uniq0, calls, memo,
                   cover_stack>>

\* lines 158-159: populate_headers is done, populate_rows begins
PopulateHeadersDone ==
    /\ pc = "populate_headers"
    /\ vacant_key(slab) - 1 >= constraints(belts, curtains)
    /\ pc' = "populate_rows"
    /\ UNCHANGED <<web, seek, rand, ps, pre, post, frames, rp, caller, slab0, uniq0,
                   calls, memo,
                   cover_stack>>

\* lines 187-191: one iteration of populate_rows' innermost loop
PopulateRowsStep ==
    /\ pc = "populate_rows"
    /\ LET nums == symbols(belts, curtains)
           t    == (vacant_key(slab) - 1 - constraints(belts, curtains)) \div 4
       IN  /\ t < nums * nums * nums
           /\ slab' = insert_row(slab, belts, curtains,
                                 (t \div (nums * nums)) + 1,
                                 ((t % (nums * nums)) \div nums) + 1,
                                 (t % nums) + 1)
    /\ slab0' = slab'
    /\ UNCHANGED <<belts, curtains, solution, prop_solution, solution_count,
                   uniq, possible, ctl, uniq0, calls, memo,
                   cover_stack>>

\* lines 121-122: arrange is done, new returns the matrix
NewReturn ==
    /\ pc = "populate_rows"
    /\ vacant_key(slab) >= capacity(belts, curtains)
    /\ pc' = "idle"
    /\ UNCHANGED <<web, seek, rand, ps, pre, post, frames, rp, caller, slab0, uniq0,
                   calls, memo,
                   cover_stack>>

NextBuild ==
    \/ PopulateHeadersStep
    \/ PopulateHeadersDone
    \/ PopulateRowsStep
    \/ NewReturn

SpecBuild == InitBuild /\ [][NextBuild]_vars

-----------------------------------------------------------------------------
(* Vocabulary of the properties *)

\* the column headers are the nodes 1..=constraints()
IsHeader(k) == k \in 1..constraints(belts, curtains)

\* slabs a and b agree on every node's four links and on every header's size
SameMatrix(a, b) ==
    /\ DOMAIN a = DOMAIN b
    /\ \A k \in DOMAIN a :
          /\ a[k].li = b[k].li /\ a[k].ri = b[k].ri
          /\ a[k].ui = b[k].ui /\ a[k].di = b[k].di
          /\ IsHeader(k) => a[k].size = b[k].size

\* the indices of the headers in the live header list, in list order
LiveHeaders(s) == headers_from(s, at(s, at(s, 0).ri))

LiveSet(s) == LET hs == LiveHeaders(s) IN {hs[p] : p \in 1..Len(hs)}

\* solve has just returned to its caller
SolveReturned == pc \in {"solved", "rp_first", "rp_solved", "rechecked"}

-----------------------------------------------------------------------------
(* C1 *)

\* C1: in every state between two cover/uncover calls (the fresh matrix and
\* every state of every solve), for every header c of the live header list,
\* uncover_column(c) right after cover_column(c) leaves every node as it was
\* (all four links, the size, and the fields no cover writes); whether uncover
\* is handed the same copy of the node (as dance does) or a new read of it
\* (as post_dance does).
C1_CoverUncoverRestores ==
    \A c \in LiveSet(slab) :
        LET covered == cover_column(slab, at(slab, c))
        IN  /\ uncover_column(covered, at(slab, c)) = slab
            /\ uncover_column(covered, at(covered, c)) = slab

\* C1 witness: in the middle of a search, with columns already covered, a live
\* column with rows exists whose cover changes the links of other columns
C1_Witness ==
    /\ pc = "cover_row"
    /\ Len(frames) >= 2
    /\ \E c \in LiveSet(slab) :
          /\ at(slab, c).size >= 1
          /\ ~SameMatrix(cover_column(slab, at(slab, c)), slab)

-----------------------------------------------------------------------------
(* C2 *)

\* C2: on the matrix as main finds it between calls (the freshly built one
\* included), for every candidate row (r, c, n): covering its four columns in
\* the order cell, row, col, block and uncovering them in the order block,
\* col, row, cell leaves every node as it was.
C2_RowCoverRestores ==
    pc = "idle" =>
        \A id \in Candidates(belts, curtains) :
            LET covered == cover_clue_from(slab, Indices(id), 1)
            IN  uncover_clue_from(covered, Indices(id), 4) = slab

\* C2 witness: the first call on a fresh matrix has covered the four columns of
\* its first clue, one PreDanceCover step each; the matrix differs from the
\* fresh one and the reverse uncovering leads back to it
C2_Witness ==
    /\ calls = 1
    /\ pc = "pre_dance"
    /\ Len(ps) >= 1 /\ pre.psi = 2 /\ pre.ind_i = 1
    /\ symbols(belts, curtains) >= 2
    /\ slab # slab0
    /\ slab = cover_clue_from(slab0, Indices(ps[1]), 1)
    /\ uncover_clue_from(slab, Indices(ps[1]), 4) = slab0

-----------------------------------------------------------------------------
(* C3 *)

\* C3: when solve returns (to main or to random_puzzle), whatever the clue
\* list, seek, policy and outcome, every node is as it was when solve was
\* called: all links and all header sizes.
C3_SolveRestoresMatrix == SolveReturned => slab = slab0

\* C3 witness: a search that stopped early at seek = 1 although a second
\* solution exists, after covering and uncovering its way through the matrix
C3_Witness ==
    /\ pc = "solved"
    /\ symbols(belts, curtains) >= 2
    /\ ps = <<>> /\ seek = 1 /\ solution_count = 1
    /\ Len(solution) = symbols(belts, curtains) * symbols(belts, curtains)
    /\ slab = slab0

-----------------------------------------------------------------------------
(* C4 *)

\* clues x and y claim the same cell, or put the same symbol twice in a row,
\* a column or a block
Clash(x, y) ==
    \/ x[1] = y[1] /\ x[2] = y[2]
    \/ x[3] = y[3] /\ x[1] = y[1]
    \/ x[3] = y[3] /\ x[2] = y[2]
    \/ /\ x[3] = y[3]
       /\ block_of(belts, curtains, x[1], x[2])
            = block_of(belts, curtains, y[1], y[2])

\* two clues of the list share a constraint column
SharesColumn(clues) ==
    \E p, q \in 1..Len(clues) : p < q /\ Clash(clues[p], clues[q])

\* dance is running, or has run in this solve
SearchEntered ==
    \/ pc \in {"dance", "rows", "cover_row", "recursed", "uncover_row"}
    \/ pc = "post_dance" /\ post.ret = "solve"

\* C4: a solve whose clue list holds two clues sharing a constraint column
\* never enters the search, and returns with feasibility No, solution_count 0,
\* an empty found solution and the matrix as it was before the call.
C4_ContradictionRolledBack ==
    /\ SearchEntered => ~SharesColumn(ps)
    /\ (SolveReturned /\ SharesColumn(ps)) =>
          /\ possible = No
          /\ solution_count = 0
          /\ solution = <<>>
          /\ slab = slab0

\* C4 witness: the second clue clashed at its second column or later, so one of
\* its own columns and all columns of the first clue were covered and undone
C4_Witness ==
    /\ pc = "solved"
    /\ Len(ps) = 2 /\ SharesColumn(ps)
    /\ pre.psi = 2 /\ pre.ind_i >= 2
    /\ possible = No

-----------------------------------------------------------------------------
(* C5 *)

\* the triples of a sequence
Range(v) == {v[p] : p \in 1..Len(v)}

\* exactly one triple of v is mapped to key by f
ExactlyOnce(v, f(_), key) == Cardinality({p \in 1..Len(v) : f(v[p]) = key}) = 1

CellOf(x)  == <<x[1], x[2]>>
RowSym(x)  == <<x[1], x[3]>>
ColSym(x)  == <<x[2], x[3]>>
BlockSym(x) == <<block_of(belts, curtains, x[1], x[2]), x[3]>>

\* v is a completed grid: symbols*symbols triples in which every (row, column),
\* (row, symbol), (column, symbol) and (block, symbol) pair appears exactly once
IsCompletedGrid(v) ==
    LET S == Syms(belts, curtains)
    IN  /\ Len(v) = symbols(belts, curtains) * symbols(belts, curtains)
        /\ Range(v) \subseteq Candidates(belts, curtains)
        /\ \A key \in S \X S :
              /\ ExactlyOnce(v, CellOf, key)
              /\ ExactlyOnce(v, RowSym, key)
              /\ ExactlyOnce(v, ColSym, key)
              /\ ExactlyOnce(v, BlockSym, key)

\* C5: whenever solve returns with solution_count >= 1, the found solution is a
\* completed grid that contains every given clue.
C5_FoundSolutionIsValidGrid ==
    (SolveReturned /\ solution_count >= 1) =>
        /\ IsCompletedGrid(solution)
        /\ Range(ps) \subseteq Range(solution)

\* C5 witness: a search that had to fill the cells left open by a clue
C5_Witness ==
    /\ pc = "solved"
    /\ symbols(belts, curtains) >= 2
    /\ Len(ps) = 1 /\ solution_count >= 1
    /\ Len(solution) > Len(ps)
    /\ possible = Yes

-----------------------------------------------------------------------------
(* C6 *)

\* the complete valid grids that extend the clues
Completions(clues) ==
    {g \in ValidGrids(belts, curtains) :
        \A p \in 1..Len(clues) : g[<<clues[p][1], clues[p][2]>>] = clues[p][3]}

Distinct(v) == \A p, q \in 1..Len(v) : p # q => v[p] # v[q]

Min(a, b) == IF a <= b THEN a ELSE b

\* C6: for distinct clues and seek >= 1, solve returns with
\* solution_count = min(seek, N), N the number of complete valid grids that
\* extend the clues; feasibility is No exactly when N = 0 and Yes exactly when
\* N >= 1.
C6_CountsCompletions ==
    (SolveReturned /\ seek >= 1 /\ Distinct(ps)) =>
        LET N == Cardinality(Completions(ps))
        IN  /\ solution_count = Min(seek, N)
            /\ possible = No  <=> N = 0
            /\ possible = Yes <=> N >= 1

\* C6 witness: clues that share no column and still have no completion: the
\* search ran, exhausted every branch and found nothing
C6_Witness ==
    /\ pc = "solved"
    /\ seek >= 1 /\ Distinct(ps) /\ ~SharesColumn(ps)
    /\ Len(ps) >= 2
    /\ Completions(ps) = {}
    /\ solution_count = 0 /\ possible = No

-----------------------------------------------------------------------------
(* C7 *)

\* C7: on a freshly constructed matrix, the first solve, given a full valid
\* grid as its clue list and seek = 2, returns with solution_count = 1 and
\* uniqueness Yes.
C7_FullGridReportsUnique ==
    (/\ pc = "solved"
     /\ calls = 1
     /\ seek = 2
     /\ ps \in FullClueLists(belts, curtains))
        => (solution_count = 1 /\ uniq = Yes)

-----------------------------------------------------------------------------
(* C8 *)

\* C8: when random_puzzle returns, whatever columns the randomized search chose
\* and whatever order the shuffle produced, every clue of prop_solution is a
\* triple of the full solution the first search found, and that full solution
\* is the one and only completion of prop_solution.
C8_PuzzleHasTheOneSolution ==
    pc = "generated" =>
        /\ Range(prop_solution) \subseteq rp.full
        /\ Cardinality(Completions(prop_solution)) = 1
        /\ \A g \in Completions(prop_solution) :
              Range(GridAsClues(belts, curtains, g)) = rp.full

\* C8 witness: random_puzzle returned having removed some clues and put one
\* back
C8_Witness ==
    /\ pc = "generated"
    /\ Len(prop_solution) >= 1
    /\ Len(prop_solution) < Cardinality(rp.full)
    /\ prop_solution[Len(prop_solution)] = rp.gone

-----------------------------------------------------------------------------
(* C9 *)

\* C9: when random_puzzle returns, it has removed every clue of the shuffled
\* full solution exactly once, and leaving out any single clue of the puzzle
\* admits a second completion; when main then takes any single clue out and
\* calls solve with seek = 2, solve returns with uniqueness No.
C9_EveryKeptClueIsNeeded ==
    /\ pc = "generated" =>
          /\ Len(rp.tried) = Cardinality(rp.full)
          /\ Range(rp.tried) = rp.full
          /\ \A p \in 1..Len(prop_solution) :
                Cardinality(Completions(remove(prop_solution, p - 1))) >= 2
    /\ pc = "rechecked" => uniq = No

\* C9 witness: main took a clue out of a generated puzzle, solve searched and
\* found the second solution
C9_Witness ==
    /\ pc = "rechecked"
    /\ rp.full # {}
    /\ Range(ps) \subseteq rp.full
    /\ solution_count = 2
    /\ uniq = No

-----------------------------------------------------------------------------
(* C10 *)

\* C10: a deterministic-selection solve with no clues returns the same found
\* solution (same triples, same order) as the solve with the same seek that
\* main noted down earlier, be it on the same matrix or on a matrix
\* constructed earlier with the same (belts, curtains).
C10_RepeatedSolveSameSolution ==
    (pc = "solved" /\ seek \in DOMAIN memo) => solution = memo[seek]

\* C10 witness: the first solve on a newly constructed second matrix repeats a
\* solve noted down on the matrix before it, and found a full grid
C10_Witness ==
    /\ pc = "solved"
    /\ calls = 1
    /\ seek \in DOMAIN memo
    /\ Len(solution) >= 4

-----------------------------------------------------------------------------
(* C11 *)

\* the candidates in the order populate_rows inserts them
CandidateSeq(B, C) ==
    LET nums == symbols(B, C)
    IN  [t \in 1..(nums * nums * nums) |->
            <<((t - 1) \div (nums * nums)) + 1,
              (((t - 1) % (nums * nums)) \div nums) + 1,
              ((t - 1) % nums) + 1>>]

RECURSIVE down_from(_, _, _)
\* the indices met walking down from node j until node k is reached
down_from(s, k, j) ==
    IF j = k THEN <<>> ELSE <<j>> \o down_from(s, k, s[j].di)

\* the nodes of column k, top to bottom
DownList(s, k) == down_from(s, k, s[k].di)

\* the candidates of v that have column k among their four columns
WithColumn(v, k) ==
    LET has(id) == \E p \in 1..4 : Indices(id)[p] = k
    IN  SelectSeq(v, has)

\* the nodes of candidate id form a left/right ring of four, in the order
\* cell, row, col, block
IsRowRing(s, id) ==
    LET mine == {x \in DOMAIN s : s[x].id = id}
    IN  /\ Cardinality(mine) = 4
        /\ \E x \in mine :
              LET x2 == s[x].ri
                  x3 == s[x2].ri
                  x4 == s[x3].ri
              IN  /\ {x, x2, x3, x4} = mine
                  /\ s[x4].ri = x
                  /\ <<s[x].ci, s[x2].ci, s[x3].ci, s[x4].ci>> = Indices(id)

\* C11: when new(belts, curtains) returns, the arena holds
\* 1 + 4*symbols^2 + 4*symbols^3 nodes; header k sits at index k; its down
\* list holds, in insertion order, exactly the candidates one of whose four
\* columns is k, and its size is symbols; every candidate is a left/right
\* ring of four nodes in the order cell, row, col, block; and the left/right
\* and up/down links of every node are mutually inverse.
C11_BuilderEncodesExactCover ==
    (pc = "idle" /\ calls = 0) =>
        LET nums == symbols(belts, curtains)
        IN  /\ DOMAIN slab = 0..(4 * nums * nums + 4 * nums * nums * nums)
            /\ \A k \in 1..(4 * nums * nums) :
                  LET col == DownList(slab, k)
                  IN  /\ slab[k].i = k
                      /\ slab[k].ci = k
                      /\ slab[k].size = nums
                      /\ [p \in 1..Len(col) |-> slab[col[p]].id]
                            = WithColumn(CandidateSeq(belts, curtains), k)
                      /\ \A p \in 1..Len(col) : slab[col[p]].ci = k
            /\ \A id \in Candidates(belts, curtains) : IsRowRing(slab, id)
            /\ \A x \in DOMAIN slab :
                  /\ slab[slab[x].ri].li = x
                  /\ slab[slab[x].li].ri = x
                  /\ slab[slab[x].di].ui = x
                  /\ slab[slab[x].ui].di = x

\* C11 witness: new has returned a matrix with rectangular blocks, built one
\* header and one row at a time
C11_Witness ==
    /\ pc = "idle" /\ calls = 0
    /\ belts = 2 /\ curtains = 3
    /\ vacant_key(slab) = capacity(belts, curtains)
    /\ slab[vacant_key(slab) - 1].id = <<6, 6, 6>>
    /\ slab[vacant_key(slab) - 1].ci = constraints(belts, curtains)

-----------------------------------------------------------------------------
(* C12 *)

\* every cell of the grid is given by some clue of the list
FillsGrid(clues) ==
    {CellOf(clues[p]) : p \in 1..Len(clues)}
        = Syms(belts, curtains) \X Syms(belts, curtains)

\* the uniqueness flag that tells one completion from several
UniqFor(N) == IF N = 1 THEN Yes ELSE No

\* C12 as stated: for every clue list that does not fill the grid and has at
\* least one completion, solve with seek >= 2 returns with uniqueness Yes when
\* there is exactly one completion and No when there are two or more.
C12_UniqTellsOneFromMany ==
    (/\ SolveReturned
     /\ seek >= 2
     /\ ~FillsGrid(ps)
     /\ Cardinality(Completions(ps)) >= 1)
        => uniq = UniqFor(Cardinality(Completions(ps)))

\* C12 for lists without a repeated clue: for every list of distinct clues
\* that does not fill the grid and has at least one completion, solve with
\* seek >= 2 returns with uniqueness Yes when there is exactly one completion
\* and No when there are two or more, whatever uniq was at the call.
C12_UniqTellsOneFromManyDistinct ==
    (/\ SolveReturned
     /\ seek >= 2
     /\ Distinct(ps)
     /\ ~FillsGrid(ps)
     /\ Cardinality(Completions(ps)) >= 1)
        => uniq = UniqFor(Cardinality(Completions(ps)))

\* C12 witness: a call that found uniq at No returned with Yes for clues that
\* leave cells open and have one completion
C12_Witness ==
    /\ pc = "solved"
    /\ seek >= 2
    /\ Len(ps) >= 1 /\ Distinct(ps) /\ ~FillsGrid(ps)
    /\ Cardinality(Completions(ps)) = 1
    /\ uniq0 = No
    /\ uniq = Yes

-----------------------------------------------------------------------------
(* C13 *)

\* C13: a deterministic solve returns the same found solution, solution_count,
\* uniqueness and feasibility as the solve with the same clue list and seek
\* that main noted down, whatever calls were made before either of them, on
\* the same matrix or on another of the same shape.
C13_OutcomeFunctionOfInputs ==
    (pc = "solved" /\ <<ps, seek>> \in DOMAIN memo)
        => Outcome = memo[<<ps, seek>>]

-----------------------------------------------------------------------------
(* C14 *)

\* C14: at every point of every solve, each uncover_column call made so far
\* was applied to the column covered most recently among those not yet
\* uncovered (no uncover out of turn is on record); and when solve returns no
\* column remains covered: none is on record and every header is back in the
\* header list.
C14_CoverUncoverLifo ==
    /\ \A p \in 1..Len(cover_stack) : cover_stack[p] > 0
    /\ SolveReturned =>
          /\ cover_stack = <<>>
          /\ LiveSet(slab) = 1..constraints(belts, curtains)

\* C14 witness: a solve with a clue has returned after a search at least two
\* rows deep: pre-assignment, search and reversal covered and uncovered
\* columns in turn
C14_Witness ==
    /\ pc = "solved"
    /\ Len(ps) = 1
    /\ solution_count >= 1
    /\ Len(solution) >= Len(ps) + 2
    /\ cover_stack = <<>>

-----------------------------------------------------------------------------
(* C15 *)

\* solve is running
InSolve ==
    pc \in {"pre_dance", "pre_undo", "post_dance", "dance", "rows", "cover_row",
            "recursed", "uncover_row"}

\* C15: with seek >= 1, solution_count never exceeds seek while solve runs or
\* when it has returned; in a state where it equals seek no step of solve
\* makes prop_solution longer or enters a deeper dance; and a solve that
\* returns with solution_count = seek has left every dance it entered, popped
\* every row it pushed and uncovered every column it covered.
C15_SeekBoundsSearch ==
    /\ []((seek >= 1 /\ (InSolve \/ SolveReturned)) =>
            /\ solution_count <= seek
            /\ (SolveReturned /\ solution_count = seek) =>
                  /\ frames = <<>>
                  /\ prop_solution = ps
                  /\ cover_stack = <<>>
                  /\ slab = slab0)
    /\ [][(seek >= 1 /\ InSolve /\ solution_count = seek) =>
            /\ Len(prop_solution') <= Len(prop_solution)
            /\ Len(frames') <= Len(frames)]_vars

\* C15 witness: the search found its one solution although a second exists
\* and is on its way back up, two dances deep, uncovering a row; the outermost
\* dance has a row left that it will not enter
C15_Witness ==
    /\ pc = "uncover_row"
    /\ seek = 1 /\ solution_count = 1
    /\ Len(frames) >= 2
    /\ Cardinality(Completions(ps)) >= 2
    /\ frames[1].r.di # frames[1].c.i

-----------------------------------------------------------------------------
(* C16 *)

\* C16: in every state between two cover/uncover calls (the built matrix and
\* every state of every solve), the size of every header in the live header
\* list is the number of nodes met walking down from the header until the
\* header is reached again.
C16_SizeCountsColumn ==
    \A c \in LiveSet(slab) : slab[c].size = Len(DownList(slab, c))

\* C16 witness: in the middle of covering a row during the search, some live
\* column has lost rows and another has lost all of them
C16_Witness ==
    /\ pc = "cover_row"
    /\ symbols(belts, curtains) = 2
    /\ \E c, d \in LiveSet(slab) :
          /\ slab[c].size = 1 /\ Len(DownList(slab, c)) = 1
          /\ slab[d].size = 0 /\ slab[d].di = d

-----------------------------------------------------------------------------
(* C17 *)

RECURSIVE right_walk(_, _, _)
\* the indices met following right links from node j until node 0 is reached,
\* giving up after fuel steps
right_walk(s, j, fuel) ==
    IF j = 0 \/ fuel = 0 THEN <<>>
    ELSE <<j>> \o right_walk(s, s[j].ri, fuel - 1)

\* the walk from the root's right neighbour, at most one step per node
RightWalk(s) == right_walk(s, s[0].ri, Cardinality(DOMAIN s))

\* C17: in every state between two cover/uncover calls (every state of every
\* solve, rollbacks of contradictory clue lists and the state with every
\* column covered included), the walk along right links from the root node 0
\* comes back to the root, meets only column headers, in strictly increasing
\* index order, and meets exactly the columns that are not covered.
C17_HeaderListWellFormed ==
    LET hs == RightWalk(slab)
    IN  /\ Len(hs) < Cardinality(DOMAIN slab)
        /\ \A p \in 1..Len(hs) : IsHeader(hs[p])
        /\ \A p, q \in 1..Len(hs) : p < q => hs[p] < hs[q]
        /\ Range(hs) = (1..constraints(belts, curtains)) \ Range(cover_stack)

\* C17 witness: the search has covered every column; the root is its own
\* right and left neighbour
C17_Witness ==
    /\ pc = "dance"
    /\ symbols(belts, curtains) = 2
    /\ Len(frames) >= 2
    /\ Len(cover_stack) = constraints(belts, curtains)
    /\ slab[0].ri = 0 /\ slab[0].li = 0

-----------------------------------------------------------------------------
(* C18 *)

\* the smallest size among the headers hs of slab s
MinSize(s, hs) ==
    CHOOSE m \in {s[h].size : h \in Range(hs)} :
        \A h \in Range(hs) : m <= s[h].size

\* the first header of hs, in list order, that has size m
FirstOfSize(s, hs, m) ==
    hs[CHOOSE p \in 1..Len(hs) :
          /\ s[hs[p]].size = m
          /\ \A q \in 1..(p - 1) : s[hs[q]].size # m]

\* C18: in every state with a non-empty live header list, both policies
\* return a live header of the smallest size among the live headers;
\* choose_column_well returns the first such header in list order from the
\* root's right neighbour; choose_column_randomly can return every header
\* tied at that size and no other.
C18_ChoosesSmallestColumn ==
    slab[0].ri # 0 =>
        LET hs == LiveHeaders(slab)
            m  == MinSize(slab, hs)
        IN  /\ choose_column_well(slab) = at(slab, FirstOfSize(slab, hs, m))
            /\ choose_column_randomly(slab)
                  = {at(slab, h) : h \in {g \in Range(hs) : slab[g].size = m}}
            /\ \A rnd \in BOOLEAN : \A c \in choose_column(slab, rnd) :
                  /\ c.i \in Range(hs)
                  /\ \A h \in Range(hs) : c.size <= slab[h].size

\* C18 witness: a randomized search, two dances deep, has just chosen and
\* covered a column that the deterministic policy would not have chosen; the
\* smallest size was not that of the first header
C18_Witness ==
    /\ pc = "rows"
    /\ rand
    /\ Len(frames) >= 2
    /\ Top.r.i = Top.c.di
    /\ LET before == uncover_column(slab, Top.c)
       IN  /\ Top.c \in choose_column_randomly(before)
           /\ Top.c # choose_column_well(before)
           /\ Cardinality(choose_column_randomly(before)) >= 2
           /\ choose_column_well(before).i # before[0].ri

-----------------------------------------------------------------------------
(* C19 *)

\* the rows the running dances have pushed and not yet popped
PushedRows ==
    IF pc \in {"cover_row", "recursed"} THEN Len(frames)
    ELSE IF pc \in {"dance", "rows", "uncover_row"} THEN Len(frames) - 1
    ELSE 0

\* C19: when solve returns, whatever the outcome, prop_solution is the clue
\* list of the call (same triples, same order); while solve runs the clue list
\* is the prefix of prop_solution, followed by one row for every dance that
\* has pushed and not yet popped.
C19_PropSolutionRestored ==
    /\ SolveReturned => prop_solution = ps
    /\ InSolve =>
          /\ Len(prop_solution) = Len(ps) + PushedRows
          /\ SubSeq(prop_solution, 1, Len(ps)) = ps

\* C19 witness: a solve with a clue has returned after an exhaustive search
\* that found the solution, having pushed and popped rows at several depths
C19_Witness ==
    /\ pc = "solved"
    /\ Len(ps) = 1
    /\ seek = 2 /\ solution_count = 1
    /\ Len(solution) >= Len(ps) + 2
    /\ prop_solution = ps

-----------------------------------------------------------------------------
(* C20 *)

RECURSIVE pre_assign(_, _, _)
\* pre_dance's outer loop over a consistent clue list, from clue psi on
pre_assign(s, clues, psi) ==
    IF psi > Len(clues) THEN s
    ELSE LET s1 == cover_clue_from(s, Indices(clues[psi]), 1)
         IN  Then(s1, pre_assign(s1, clues, psi + 1))

RECURSIVE cover_row_others(_, _, _)
\* dance's loop over the other nodes j of row r, rightwards (lines 355-361)
cover_row_others(s, r, j) ==
    IF j.i = r.i THEN s
    ELSE LET s1 == cover_column(s, at(s, j.ci))
         IN  Then(s1, cover_row_others(s1, r, at(s1, j.ri)))

\* dance commits row id having selected its column number first: it covers
\* that column, then the columns of the row's other nodes (lines 349-361)
search_commit(s, id, first) ==
    LET c  == Indices(id)[first]
        r  == at(s, CHOOSE x \in DOMAIN s : s[x].id = id /\ s[x].ci = c)
        s1 == cover_column(s, at(s, c))
    IN  Then(s1, cover_row_others(s1, r, at(s1, r.ri)))

RECURSIVE commit_rows(_, _, _, _)
\* the rows committed at successive depths, row p through column firsts[p]
commit_rows(s, rows, firsts, p) ==
    IF p > Len(rows) THEN s
    ELSE LET s1 == search_commit(s, rows[p], firsts[p])
         IN  Then(s1, commit_rows(s1, rows, firsts, p + 1))

\* the live part of the matrix: the header list, and the size and the down
\* list of every header in it
LivePart(s) ==
    LET hs == LiveHeaders(s)
    IN  [headers |-> hs,
         size    |-> [h \in Range(hs) |-> s[h].size],
         down    |-> [h \in Range(hs) |-> DownList(s, h)]]

\* C20: when pre-assignment has succeeded and dance(0) is entered, the live
\* part of the matrix is the live part left by committing the clues as search
\* rows, in any order of the clue list and through any of the four columns of
\* each row; and whenever a dance is entered, at any depth and under either
\* policy, the live part the search has reached is the live part left by
\* pre-assigning the clues and the rows committed so far.
C20_PreAssignmentIsCommitting ==
    pc = "dance" =>
        /\ LivePart(slab) = LivePart(pre_assign(slab0, prop_solution, 1))
        /\ Len(frames) = 1 =>
              \A order \in Shuffles(ps) :
                  \A firsts \in [1..Len(ps) -> 1..4] :
                      LivePart(commit_rows(slab0, order, firsts, 1))
                          = LivePart(slab)

\* C20 witness: a randomized search entered its third dance having selected
\* the first row through a column that is not its cell column; the matrix is
\* not the one pre-assignment would leave, the live part is, and it is not
\* empty
C20_Witness ==
    /\ pc = "dance"
    /\ Len(frames) = 3
    /\ rand
    /\ frames[1].c.i > symbols(belts, curtains) * symbols(belts, curtains)
    /\ slab[0].ri # 0
    /\ slab # pre_assign(slab0, prop_solution, 1)

-----------------------------------------------------------------------------
(* C21 *)

\* the cells of block b
BlockCells(B, C, b) ==
    {cell \in Syms(B, C) \X Syms(B, C) : block_of(B, C, cell[1], cell[2]) = b}

\* the column indices of constraint family p (1 cell, 2 row, 3 col, 4 block)
FamilyRange(B, C, p) ==
    LET nums == symbols(B, C)
    IN  ((p - 1) * nums * nums + 1)..(p * nums * nums)

\* C21: for the shape (belts, curtains) of the matrix under construction,
\* non-square shapes such as (2, 3) and (3, 2) included: the block of every
\* cell lies in 1..symbols; every block value is taken by exactly symbols
\* cells, which form a contiguous rectangle of curtains rows by belts
\* columns; the four indices of every candidate fall one in each family's
\* range of width symbols^2, in the order cell, row, col, block; and so do the
\* columns of the four nodes insert_row has made for each inserted candidate.
C21_BlockFormula ==
    LET B    == belts
        C    == curtains
        nums == symbols(B, C)
    IN  /\ \A r, c \in Syms(B, C) : block_of(B, C, r, c) \in 1..nums
        /\ \A b \in 1..nums :
              /\ Cardinality(BlockCells(B, C, b)) = nums
              /\ \E r0, c0 \in 0..(nums - 1) :
                    BlockCells(B, C, b)
                        = ((r0 + 1)..(r0 + C)) \X ((c0 + 1)..(c0 + B))
        /\ \A id \in Candidates(B, C) : \A p \in 1..4 :
              Indices(id)[p] \in FamilyRange(B, C, p)
        /\ \A x \in DOMAIN slab :
              x > constraints(B, C) =>
                  LET p == ((x - 1 - constraints(B, C)) % 4) + 1
                  IN  /\ slab[x].ci = Indices(slab[x].id)[p]
                      /\ slab[x].ci \in FamilyRange(B, C, p)

\* C21 witness: with belts = 3 and curtains = 2, insert_row has just inserted
\* candidate (3, 4, 1); its cell lies in block 4, the second block of the
\* second pair of rows, and its block node hangs in column 3*36 + 3*6 + 1
C21_Witness ==
    /\ pc = "populate_rows"
    /\ belts = 3 /\ curtains = 2
    /\ slab[vacant_key(slab) - 1].id = <<3, 4, 1>>
    /\ slab[vacant_key(slab) - 1].ci = 127
    /\ block_of(belts, curtains, 3, 4) = 4
    /\ BlockCells(belts, curtains, 4) = (3..4) \X (4..6)

=============================================================================
